---- MODULE Spec2Model ----
(***************************************************************************)
(* A model of alecgunny/cloud-utils: the blocking poller                   *)
(* (cloud_utils/utils.py), the throttled gateway, the resource nodes and   *)
(* the resource managers (cloud_utils/gke.py).                             *)
(*                                                                         *)
(* Python values and exceptions are records [kind, v, code]:               *)
(*   kind = "val"  : the value named v (None, False, True, ...);           *)
(*   kind = "exc"  : an exception of class v that has no `.code`;          *)
(*   kind = "http" : an exception of class v whose `.code` is code.        *)
(***************************************************************************)
EXTENDS Integers, Sequences, FiniteSets, TLC

\* ------------------------------------------------------------- bounds
\* Predicate invocations explored within one wait_for call.
MaxPolls == 3

\* ------------------------------------------------------ Python values
Val(x) == [kind |-> "val", v |-> x, code |-> 0]
Exc(cls) == [kind |-> "exc", v |-> cls, code |-> 0]
Http(c) == [kind |-> "http", v |-> "HttpError", code |-> c]

None == Val("None")
True == Val("True")
False == Val("False")

IsException(x) == x.kind \in {"exc", "http"}
\* `if value:` -- None and False are the falsy values of the model
Truthy(x) == x.kind = "val" /\ x.v \notin {"None", "False"}
\* `e.code` raises AttributeError unless the exception carries a code
HasCode(e) == e.kind = "http"

\* What the predicate of a bare wait_for call may do at one invocation.
PredOutcomes ==
  { None, False, True, Val("v"), Exc("ValueError"), Exc("queue.Empty") }

VARIABLES
  \* ---- one wait_for call (utils.py) ----
  callback,   \* the predicate: "none" | "pred" | "is_ready" | "submit_delete" | "is_deleted"
  msg,        \* "None" or the progress label
  exit_msg,   \* "None", the exit label, or "Encountered error in callback"
  level,      \* "INFO" | "ERROR"
  q,          \* queue.Queue(): the items put and not yet taken
  t_pc,       \* the worker thread t: "unstarted" | "callback" | "put" | "exit" | "dead"
  t_value,    \* target's `value` (or `e`)
  pc,         \* the waiting thread inside wait_for
  value,      \* wait_for's `value`
  i,          \* wait_for's `i`, the phase of the progress dots
  exc,        \* the exception in flight in the waiting thread, None if none
  result,     \* how the call ended: [kind |-> "none" | "return" | "raise", item]
  polls,      \* predicate invocations of this call so far
  puts,       \* q.put calls of this call so far
  takes       \* items q.get_nowait has handed to the waiting thread so far

wfVars == <<callback, msg, exit_msg, level, q, t_pc, t_value, pc, value, i,
            exc, result, polls, puts, takes>>

VARIABLES
  \* ---- the provider behind the gateway (collaborator, gke.py's `container`) ----
  exists,     \* local names of the managed kind the provider currently lists
  status,     \* their status codes (0 when absent)
  pools,      \* the node pools the provider lists under each cluster
  busy,       \* 400 "busy" answers the provider has given to delete requests
  answer,     \* the provider's answer to the last get, create or delete request
  rpc,        \* the provider calls of the running method (or of the last one), in
              \* order: <<operation, local name>>
  \* ---- a manager and the thread calling it (gke.py) ----
  managerKind,   \* type(self).__name__ of the manager: "GKEClusterManager" | "Cluster"
  _resources,    \* ManagerResource._resources: key -> node
  m_pc,          \* where the calling thread stands in the manager's methods
  resource,      \* the node the running method works on (`resource`)
  keep,          \* manage_resource's `keep`
  top,           \* the method the caller invoked
  ret,           \* how the last method the caller invoked ended
  ops,           \* methods the caller has invoked so far
  delete_calls,  \* delete_resource invocations made by the running method
  held,          \* the _resources mapping when the running method was invoked
  seen,          \* the predicates that have returned a truthy value to a wait_for
                 \* call of the running method
  body           \* how the block under manage_resource ended: "none" | "returns" | "raises"

gkeVars == <<exists, status, pools, busy, answer, rpc>>
mgrVars == <<managerKind, _resources, m_pc, resource, keep, top, ret, ops,
             delete_calls, held, seen, body>>

VARIABLES
  \* ---- ThrottledClient (gke.py) with a clock ----
  now,                 \* time.time(), in ticks of 0.01 s
  throttle_secs,       \* ThrottledClient.throttle_secs, in ticks
  _last_request_time,  \* ThrottledClient._last_request_time
  request,             \* the request make_request is holding, 0 if none
  submitted,           \* requests handed to make_request so far
  dispatched           \* <<request, time>> of every call of request_fn, in order

thrVars == <<now, throttle_secs, _last_request_time, request, submitted, dispatched>>

VARIABLES
  \* ---- K8sApiClient (k8s.py) and the control plane it calls ----
  credentials,  \* cluster.client.credentials: "None" | "supplied"
  _refresh,     \* K8sApiClient._refresh
  stale,        \* the control plane rejects the token the client holds (401)
  k_pc,         \* where the calling thread stands in the client's methods
  k_op,         \* the method the caller invoked
  k_ret,        \* how that method ended
  k_calls,      \* the workload calls of the running method (or of the last
                \* one), in order: [cmd, err], err = None for a served call
  k_answer,     \* the answer to the last workload call
  refreshes,    \* tokens fetched from the metadata server by that method
  k_ops         \* methods the caller has invoked so far

k8sVars == <<credentials, _refresh, stale, k_pc, k_op, k_ret, k_calls, k_answer,
             refreshes, k_ops>>

VARIABLES
  \* ---- one call of create_gpu_node_pool_config (gke.py) ----
  vcpus, gpus, gpu_type,   \* its arguments (0, 0, "none" before the call)
  config                   \* how it ended

cfgVars == <<vcpus, gpus, gpu_type, config>>

vars == <<wfVars, gkeVars, mgrVars, thrVars, k8sVars, cfgVars>>

NoResult == [kind |-> "none", item |-> None]
Return(x) == [kind |-> "return", item |-> x]
Raise(e) == [kind |-> "raise", item |-> e]

\* ====================================================== utils.py: wait_for

\* utils.py:64 `logging.log(exit_msg, level=level)`.  logging.log is
\* log(level, msg, *args, **kwargs): the positional exit_msg and the keyword
\* argument both bind `level`, so the call raises TypeError.
logging_log == Exc("TypeError")

\* utils.py:26-33.  [q: the queue afterwards, raised, value: what is returned or raised]
check_q(queue) ==
  IF queue = <<>>
    THEN [q |-> queue, raised |-> FALSE, value |-> None]          \* queue.Empty
    ELSE LET item == Head(queue) IN
         IF IsException(item)
           THEN IF item.v = "queue.Empty"
                  \* `raise value` is inside the try: except queue.Empty takes it
                  THEN [q |-> Tail(queue), raised |-> FALSE, value |-> None]
                  ELSE [q |-> Tail(queue), raised |-> TRUE, value |-> item]
           ELSE [q |-> Tail(queue), raised |-> FALSE, value |-> item]

\* utils.py:13, 35-40: the queue, the thread started, the locals.
StartWait(cb, m, e) ==
  /\ callback' = cb /\ msg' = m /\ exit_msg' = e /\ level' = "INFO"
  /\ q' = <<>> /\ t_pc' = "callback" /\ t_value' = None
  /\ pc' = "while" /\ value' = None /\ i' = 0 /\ exc' = None
  /\ result' = NoResult /\ polls' = 0 /\ puts' = 0 /\ takes' = 0

\* wait_for has ended: its queue, thread and locals are dropped; what the
\* predicate last did (t_value), the count of its invocations and the result
\* stay readable.  (A worker still between q.put and its end has no step left
\* that anything can observe.)
LeaveWait ==
  /\ msg' = "None" /\ exit_msg' = "None" /\ level' = "INFO"
  /\ q' = <<>> /\ t_pc' = "dead" /\ pc' = "idle" /\ value' = None /\ i' = 0
  /\ exc' = None
  /\ UNCHANGED <<callback, t_value, result, polls, puts, takes>>

\* the running method has made no wait_for call
NoWait ==
  /\ callback' = "none" /\ msg' = "None" /\ exit_msg' = "None" /\ level' = "INFO"
  /\ q' = <<>> /\ t_pc' = "unstarted" /\ t_value' = None
  /\ pc' = "idle" /\ value' = None /\ i' = 0 /\ exc' = None
  /\ result' = NoResult /\ polls' = 0 /\ puts' = 0 /\ takes' = 0

WaitIdle ==
  /\ callback = "none" /\ msg = "None" /\ exit_msg = "None" /\ level = "INFO"
  /\ q = <<>> /\ t_pc = "unstarted" /\ t_value = None
  /\ pc = "idle" /\ value = None /\ i = 0 /\ exc = None
  /\ result = NoResult /\ polls = 0 /\ puts = 0 /\ takes = 0

\* ============================================ the provider (collaborator)
\* A fake of the provider API the gateway calls: it lists resources by local
\* name, reports a status code for each, and answers a request with a
\* response or with an error.

Names == {"a", "b"}
PoolNames == {"p"}
\* container_v1's Status enum: 0 STATUS_UNSPECIFIED, 1 PROVISIONING, 2 RUNNING,
\* 3 RECONCILING, 4 STOPPING, 5 ERROR, 6 DEGRADED
Statuses == 0..6
\* "busy" answers the provider gives to delete requests, at most
MaxBusy == 2

\* An answer of the provider: a response carrying a status, or an error.
Ok(s) == [ok |-> TRUE, status |-> s, err |-> None]
Fail(e) == [ok |-> FALSE, status |-> 0, err |-> e]
\* errors any call may meet: a server error, a transport error without code
Faults == { Http(500), Exc("ConnectionError") }

GetAnswers(n) ==
  (IF n \in exists THEN {Ok(status[n])} ELSE {Fail(Http(404))})
    \cup {Fail(f) : f \in Faults}

CreateAnswers(n) ==
  (IF n \in exists THEN {Fail(Http(409))} ELSE {Ok(1)})
    \cup {Fail(f) : f \in Faults \cup {Http(400)}}

DeleteAnswers(n) ==
  (IF n \in exists
     THEN {Ok(4)} \cup (IF busy < MaxBusy THEN {Fail(Http(400))} ELSE {})
     ELSE {Fail(Http(404))})
    \cup {Fail(f) : f \in Faults \cup {Http(409)}}

\* The provider's own progress on a resource: provisioning ends ready or in
\* error, a running resource may start reconciling, a stopping one is removed
\* or ends in error.  The program sees the provider only through its calls, so
\* progress is taken between two of them: while the caller is between two
\* methods, or while the worker is about to invoke the callback.
ProviderStep ==
  /\ m_pc = "idle" \/ t_pc = "callback"
  /\ \E n \in exists :
       \/ /\ status[n] = 1
          /\ \E s \in {2, 5} : status' = [status EXCEPT ![n] = s]
          /\ exists' = exists
       \/ /\ status[n] = 2
          /\ status' = [status EXCEPT ![n] = 3]
          /\ exists' = exists
       \/ /\ status[n] = 4
          /\ \/ status' = [status EXCEPT ![n] = 0] /\ exists' = exists \ {n}
             \/ status' = [status EXCEPT ![n] = 5] /\ exists' = exists
  /\ UNCHANGED <<pools, busy, answer, rpc, wfVars, mgrVars, thrVars, k8sVars, cfgVars>>

\* ================================================= gke.py: Resource nodes

\* gke.py:135 and gke.py:186: the status codes is_ready and is_deleted compare with
READY == 2
DELETING == 4

RootName == <<"projects/p/locations/z">>

\* A node: Resource._name, type(self).__name__, parent.name, and for a Cluster
\* the local names of the node pools its constructor listed.
Node(n, t, parentName, ps) ==
  [_name |-> n, type |-> t, parent |-> parentName, pools |-> ps]
NoNode == Node("", "", <<>>, {})

\* gke.py:84  resource_type[0].lower() + resource_type[1:]
camel(resource_type) ==
  CASE resource_type = "Cluster" -> "cluster"
    [] resource_type = "NodePool" -> "nodePool"
    [] OTHER -> resource_type

\* gke.py:81-85  Resource.name; a path is the sequence of its "/"-joined segments
name(node) == node.parent \o <<camel(node.type), node._name>>

\* An is_ready that takes every status from READY up as ready.
is_ready_from_ready_up(ans) ==
  IF ~ans.ok THEN ans.err
  ELSE IF ans.status >= 2 THEN Val("True")
  ELSE Val("False")

\* gke.py:129-139
is_ready(ans) ==
  IF ~ans.ok THEN ans.err
  ELSE IF ans.status = READY THEN True
  ELSE IF ans.status > READY THEN Exc("RuntimeError")
  ELSE False

\* A submit_delete that treats the busy answer as fatal instead of "retry".
submit_delete_busy_is_fatal(ans) ==
  IF ans.ok THEN Val("True")
  ELSE IF ans.err.kind = "http" /\ ans.err.code = 404 THEN Val("True")
  ELSE ans.err

\* gke.py:141-167, on the answer to the one delete request it makes
submit_delete(ans) ==
  IF ans.ok THEN True
  ELSE IF ~HasCode(ans.err) THEN ans.err        \* AttributeError: raise e
  ELSE IF ans.err.code = 404 THEN True
  ELSE IF ans.err.code # 400 THEN ans.err
  ELSE False

\* An is_deleted for which a resource that is not found is an error.
is_deleted_not_found_is_fatal(ans) ==
  IF ~ans.ok THEN ans.err
  ELSE IF ans.status > 4 THEN Exc("RuntimeError")
  ELSE Val("False")

\* gke.py:169-190
is_deleted(ans) ==
  IF ~ans.ok
    THEN IF ~HasCode(ans.err) THEN ans.err
         ELSE IF ans.err.code = 404 THEN True
         ELSE ans.err
  ELSE IF ans.status > DELETING THEN Exc("RuntimeError")
  ELSE False

\* The provider after a request on n was answered with ans.
AfterCreate(n, ans) ==
  [exists |-> IF ans.ok THEN exists \cup {n} ELSE exists,
   status |-> IF ans.ok THEN [status EXCEPT ![n] = 1] ELSE status,
   busy |-> busy]
AfterDelete(n, ans) ==
  [exists |-> exists,
   status |-> IF ans.ok THEN [status EXCEPT ![n] = 4] ELSE status,
   busy |-> IF ~ans.ok /\ ans.err = Http(400) THEN busy + 1 ELSE busy]
Unchanged == [exists |-> exists, status |-> status, busy |-> busy]

\* ============================== k8s.py: the calls of K8sApiClient
\* The errors of a workload call: the class the envelope catches
\* (k8s.py:85) and the class the polling callbacks catch (k8s.py:129); `code`
\* is the code of the error's body.
HTTPError(c) == [kind |-> "exc", v |-> "requests.HTTPError", code |-> c]
ApiException(c) == [kind |-> "exc", v |-> "kubernetes.client.ApiException", code |-> c]

Unauthorized == Exc("RuntimeError: Unauthorized request to cluster")
Encountered == Exc("RuntimeError: Encountered exception")
NoLongerExists == Exc("RuntimeError: no longer exists")
AttributeError == Exc("AttributeError")

\* What a workload call answers: a response with the fields the client reads,
\* or an error.
NoPayload ==
  [conditions |-> "None", Available |-> "missing", Progressing |-> "missing",
   ingress |-> "None", desired |-> 0, ready |-> 0]
Served(p) == [ok |-> TRUE, payload |-> p, err |-> None]
Failed(e) == [ok |-> FALSE, payload |-> NoPayload, err |-> e]

Conditions == {"True", "False", "missing"}

Payloads(cmd) ==
  CASE cmd = "read_namespaced_deployment_status" ->
         {NoPayload} \cup
         {[NoPayload EXCEPT !.conditions = "list", !.Available = a,
                            !.Progressing = g] : a \in Conditions, g \in Conditions}
    [] cmd = "read_namespaced_service_status" ->
         {[NoPayload EXCEPT !.ingress = x] : x \in {"None", "empty", "no ip", "ip"}}
    [] OTHER -> {NoPayload}

\* The control plane rejects a stale token with 401; otherwise it serves the
\* call or fails it with another code.
CallOutcomes(cmd, isStale) ==
  IF isStale
    THEN {Failed(HTTPError(401)), Failed(ApiException(401))}
    ELSE {Served(p) : p \in Payloads(cmd)}
           \cup {Failed(HTTPError(c)) : c \in {404, 500}}
           \cup {Failed(ApiException(c)) : c \in {404, 500}}

\* k8s.py:80-92 around one workload call that answered o.  body is the code of
\* the error body, 0 for the empty body; fetched counts the tokens fetched.
\* Line 90 reads self.client, which K8sApiClient does not have (only _client).
_maybe_refresh(o) ==
  IF o.ok
    THEN [raised |-> FALSE, err |-> None, body |-> 0, fetched |-> 0]
  ELSE IF o.err.v # "requests.HTTPError"
    THEN [raised |-> TRUE, err |-> o.err, body |-> 0, fetched |-> 0]
  ELSE IF o.err.code = 401
    THEN IF _refresh
           THEN [raised |-> TRUE, err |-> AttributeError, body |-> 401, fetched |-> 1]
           ELSE [raised |-> TRUE, err |-> Unauthorized, body |-> 401, fetched |-> 0]
  ELSE [raised |-> FALSE, err |-> None, body |-> o.err.code, fetched |-> 0]

\* k8s.py:97-105  _try_cmd(cmd): at most two turns of the envelope.
\* One outcome: [ret, kcalls, kans, fetched].
_try_cmd(cmd) ==
  LET turn(o, before, fetched, last) ==
        LET e == _maybe_refresh(o)
            r == [ret |-> False, kcalls |-> Append(before, [cmd |-> cmd, err |-> o.err]),
                  kans |-> o, fetched |-> fetched + e.fetched, again |-> FALSE]
        IN IF e.raised THEN [r EXCEPT !.ret = e.err]
           ELSE IF e.body = 404 THEN [r EXCEPT !.ret = True]
           ELSE IF e.body = 0 \/ e.body # 401 THEN r
           ELSE [r EXCEPT !.again = ~last]
      first == {turn(o, <<>>, 0, FALSE) : o \in CallOutcomes(cmd, stale)}
      second(r) == {turn(o, r.kcalls, r.fetched, TRUE) : o \in CallOutcomes(cmd, FALSE)}
      all == UNION {IF r.again THEN second(r) ELSE {r} : r \in first}
  IN {[ret |-> r.ret, kcalls |-> r.kcalls, kans |-> r.kans, fetched |-> r.fetched]
        : r \in all}

\* k8s.py:73-78  create_from_yaml(file).
\* One outcome: [ret, kcalls, kans, fetched].
create_from_yaml_outcomes ==
  { LET e == _maybe_refresh(o) IN
      [ret |-> IF e.raised THEN e.err
               ELSE IF e.body # 0 THEN Encountered
               ELSE Val("response"),
       kcalls |-> <<[cmd |-> "create_from_yaml", err |-> o.err]>>,
       kans |-> o, fetched |-> e.fetched]
    : o \in CallOutcomes("create_from_yaml", stale) }

\* k8s.py:124-149  wait_for_deployment._ready_callback, on the answer o of its
\* read; late: the grace period is over.  `finally: return False` (line
\* 148) ends the second try whatever happened in it.
deployment_ready_callback(o, late) ==
  IF ~o.ok
    THEN IF o.err.v = "kubernetes.client.ApiException" THEN NoLongerExists ELSE o.err
  ELSE IF o.payload.conditions = "None" THEN False
  ELSE IF o.payload.Available = "True" THEN True
  ELSE IF o.payload.Available = "missing" /\ late THEN Exc("ValueError")
  ELSE False

\* k8s.py:160-172  wait_for_service._ready_callback, on the answer o of its read
service_ready_callback(o) ==
  IF ~o.ok
    THEN IF o.err.v = "kubernetes.client.ApiException" THEN NoLongerExists ELSE o.err
  ELSE IF o.payload.ingress = "None" THEN False          \* TypeError: return False
  ELSE IF o.payload.ingress = "empty" THEN Exc("IndexError")
  ELSE IF o.payload.ingress = "no ip" THEN False         \* ip or False
  ELSE Val("ip")

\* One invocation of a polling callback of K8sApiClient.
InvokeK8s(cb) ==
  CASE cb = "_deleted_callback" -> _try_cmd("read_namespaced_deployment")
    [] cb = "wait_for_deployment._ready_callback" ->
         { [ret |-> deployment_ready_callback(o, late),
            kcalls |-> <<[cmd |-> "read_namespaced_deployment_status",
                          err |-> o.err]>>,
            kans |-> o, fetched |-> 0]
           : o \in CallOutcomes("read_namespaced_deployment_status", stale),
             late \in BOOLEAN }
    [] cb = "wait_for_service._ready_callback" ->
         { [ret |-> service_ready_callback(o),
            kcalls |-> <<[cmd |-> "read_namespaced_service_status", err |-> o.err]>>,
            kans |-> o, fetched |-> 0]
           : o \in CallOutcomes("read_namespaced_service_status", stale) }
    [] OTHER -> {}

K8sCallbacks ==
  {"_deleted_callback", "wait_for_deployment._ready_callback",
   "wait_for_service._ready_callback"}

\* One invocation of a callback (of the node named n, for a node's method):
\* what it returns or raises (ret), the provider's answer (ans), the provider
\* afterwards (world), the provider calls it made (calls), the workload calls
\* it made (kcalls) and the tokens it fetched (fetched).
Invoke(cb, n) ==
  CASE cb = "pred" ->
         { [ret |-> o, ans |-> answer, world |-> Unchanged, calls |-> <<>>,
            kcalls |-> <<>>, kans |-> k_answer, fetched |-> 0]
             : o \in PredOutcomes }
    [] cb = "is_ready" ->
         { [ret |-> is_ready(a), ans |-> a, world |-> Unchanged,
            calls |-> << <<"get", n>> >>,
            kcalls |-> <<>>, kans |-> k_answer, fetched |-> 0]
             : a \in GetAnswers(n) }
    [] cb = "submit_delete" ->
         { [ret |-> submit_delete(a), ans |-> a,
            world |-> AfterDelete(n, a),
            calls |-> << <<"delete", n>> >>,
            kcalls |-> <<>>, kans |-> k_answer, fetched |-> 0]
             : a \in DeleteAnswers(n) }
    [] cb = "is_deleted" ->
         { [ret |-> is_deleted(a), ans |-> a, world |-> Unchanged,
            calls |-> << <<"get", n>> >>,
            kcalls |-> <<>>, kans |-> k_answer, fetched |-> 0]
             : a \in GetAnswers(n) }
    [] cb \in K8sCallbacks ->
         { [ret |-> r.ret, ans |-> answer, world |-> Unchanged, calls |-> <<>>,
            kcalls |-> r.kcalls, kans |-> r.kans, fetched |-> r.fetched]
             : r \in InvokeK8s(cb) }
    [] OTHER -> {}

\* ====================================================== utils.py: wait_for

\* A worker that leaves its loop after one invocation, whatever was returned.
target_gives_up ==
  /\ t_pc = "callback"
  /\ polls < MaxPolls
  /\ \E r \in Invoke(callback, resource._name) :
       /\ t_value' = r.ret
       /\ t_pc' = "put"
       /\ exists' = r.world.exists
       /\ status' = r.world.status
       /\ busy' = r.world.busy
       /\ answer' = r.ans
       /\ rpc' = rpc \o r.calls
       /\ k_calls' = k_calls \o r.kcalls
       /\ k_answer' = r.kans
       /\ refreshes' = refreshes + r.fetched
       /\ seen' = IF r.ret.kind = "val" /\ r.ret.v \notin {"None", "False"}
                   THEN seen \cup {callback} ELSE seen
  /\ polls' = polls + 1
  /\ UNCHANGED <<callback, msg, exit_msg, level, q, pc, value, i, exc, result,
                 puts, takes, pools, managerKind, _resources, m_pc, resource, keep, top, ret,
                 ops, delete_calls, held, body, thrVars, credentials, _refresh,
                 stale, k_pc, k_op, k_ret, k_ops, cfgVars>>

\* utils.py:15-24, one turn of the loop: the callback is invoked; a truthy
\* value ends the loop, an exception is caught, a falsy value sleeps and loops.
target ==
  /\ t_pc = "callback"
  /\ polls < MaxPolls
  /\ \E r \in Invoke(callback, resource._name) :
       /\ t_value' = r.ret
       /\ t_pc' = IF IsException(r.ret) \/ Truthy(r.ret) THEN "put" ELSE "callback"
       /\ exists' = r.world.exists
       /\ status' = r.world.status
       /\ busy' = r.world.busy
       /\ answer' = r.ans
       /\ rpc' = rpc \o r.calls
       /\ k_calls' = k_calls \o r.kcalls
       /\ k_answer' = r.kans
       /\ refreshes' = refreshes + r.fetched
       /\ seen' = IF Truthy(r.ret) THEN seen \cup {callback} ELSE seen
  /\ polls' = polls + 1
  /\ UNCHANGED <<callback, msg, exit_msg, level, q, pc, value, i, exc, result,
                 puts, takes, pools, managerKind, _resources, m_pc, resource, keep, top, ret,
                 ops, delete_calls, held, body, thrVars, credentials, _refresh,
                 stale, k_pc, k_op, k_ret, k_ops, cfgVars>>

\* A worker that goes back to its loop after q.put instead of returning.
target_put_and_go_on ==
  /\ t_pc = "put"
  /\ q' = Append(q, t_value)
  /\ puts' = puts + 1
  /\ t_pc' = "callback"
  /\ UNCHANGED <<callback, msg, exit_msg, level, t_value, pc, value, i, exc,
                 result, polls, takes, gkeVars, mgrVars, thrVars, k8sVars, cfgVars>>

\* utils.py:22 and 24: q.put(value), q.put(e)
target_put ==
  /\ t_pc = "put"
  /\ q' = Append(q, t_value)
  /\ puts' = puts + 1
  /\ t_pc' = "exit"
  /\ UNCHANGED <<callback, msg, exit_msg, level, t_value, pc, value, i, exc,
                 result, polls, takes, gkeVars, mgrVars, thrVars, k8sVars, cfgVars>>

\* target has returned; the thread ends and t.is_alive() turns false
target_exit ==
  /\ t_pc = "exit"
  /\ t_pc' = "dead"
  /\ UNCHANGED <<callback, msg, exit_msg, level, q, t_value, pc, value, i, exc,
                 result, polls, puts, takes, gkeVars, mgrVars, thrVars, k8sVars, cfgVars>>

\* utils.py:42  while t.is_alive():
while_is_alive ==
  /\ pc = "while"
  /\ pc' = IF t_pc # "dead" THEN "body" ELSE "after"
  /\ UNCHANGED <<callback, msg, exit_msg, level, q, t_pc, t_value, value, i,
                 exc, result, polls, puts, takes, gkeVars, mgrVars, thrVars, k8sVars, cfgVars>>

\* utils.py:57-60: an exception leaving the try block
Except(e) ==
  /\ exc' = e
  /\ exit_msg' = "Encountered error in callback"
  /\ level' = "ERROR"
  /\ pc' = "finally"

\* utils.py:43-53: value = check_q(), then the progress line when msg is given
loop_body ==
  /\ pc = "body"
  /\ LET c == check_q(q) IN
       /\ q' = c.q
       /\ takes' = takes + (Len(q) - Len(c.q))
       /\ IF c.raised
            THEN Except(c.value) /\ UNCHANGED <<value, i>>
            ELSE /\ value' = c.value
                 /\ i' = IF msg = "None" THEN i ELSE (i + 1) % 3
                 /\ pc' = "while"
                 /\ UNCHANGED <<exc, exit_msg, level>>
  /\ UNCHANGED <<callback, msg, t_pc, t_value, result, polls, puts, gkeVars,
                 mgrVars, thrVars, k8sVars, cfgVars>>

\* utils.py:55-56: if value is None: value = check_q()
after_loop ==
  /\ pc = "after"
  /\ IF value = None
       THEN LET c == check_q(q) IN
              /\ q' = c.q
              /\ takes' = takes + (Len(q) - Len(c.q))
              /\ IF c.raised
                   THEN Except(c.value) /\ UNCHANGED value
                   ELSE /\ value' = c.value
                        /\ pc' = "finally"
                        /\ UNCHANGED <<exc, exit_msg, level>>
       ELSE /\ pc' = "finally"
            /\ UNCHANGED <<q, takes, value, exc, exit_msg, level>>
  /\ UNCHANGED <<callback, msg, t_pc, t_value, i, result, polls, puts, gkeVars,
                 mgrVars, thrVars, k8sVars, cfgVars>>

\* utils.py:61-65: the finally block, then the exception in flight or the return
Finally(label, e, v) ==
  IF label # "None" THEN Raise(logging_log)
  ELSE IF e # None THEN Raise(e)
  ELSE Return(v)

finally ==
  /\ pc = "finally"
  /\ result' = Finally(exit_msg, exc, value)
  /\ pc' = "done"
  /\ UNCHANGED <<callback, msg, exit_msg, level, q, t_pc, t_value, value, i,
                 exc, polls, puts, takes, gkeVars, mgrVars, thrVars, k8sVars, cfgVars>>

WaitFor == target \/ target_put \/ target_exit \/ while_is_alive \/ loop_body
             \/ after_loop \/ finally

\* ---------------------------------------------- a bare call of wait_for
GkeUnused ==
  /\ exists = {} /\ status = [n \in Names |-> 0] /\ pools = [n \in Names |-> {}]
  /\ busy = 0 /\ answer = Ok(0) /\ rpc = <<>>
MgrUnused ==
  /\ managerKind = "none" /\ _resources = <<>> /\ m_pc = "none"
  /\ resource = NoNode /\ keep = FALSE /\ top = "none" /\ ret = NoResult
  /\ ops = 0 /\ delete_calls = 0 /\ held = <<>> /\ seen = {} /\ body = "none"
ThrUnused ==
  /\ now = 0 /\ throttle_secs = 0 /\ _last_request_time = 0 /\ request = 0
  /\ submitted = 0 /\ dispatched = <<>>
K8sUnused ==
  /\ credentials = "None" /\ _refresh = FALSE /\ stale = FALSE /\ k_pc = "none"
  /\ k_op = "none" /\ k_ret = NoResult /\ k_calls = <<>> /\ refreshes = 0
  /\ k_ops = 0
  /\ k_answer = [ok |-> TRUE, err |-> None,
                 payload |-> [conditions |-> "None", Available |-> "missing",
                              Progressing |-> "missing", ingress |-> "None",
                              desired |-> 0, ready |-> 0]]
CfgUnused ==
  /\ vcpus = 0 /\ gpus = 0 /\ gpu_type = "none" /\ config = NoResult

\* wait_for(callback, msg, exit_msg) with each label given or left None
call_wait_for ==
  /\ pc = "idle"
  /\ \E m \in {"None", "msg"}, e \in {"None", "exit_msg"} : StartWait("pred", m, e)
  /\ UNCHANGED <<gkeVars, mgrVars, thrVars, k8sVars, cfgVars>>

InitWait ==
  WaitIdle /\ GkeUnused /\ MgrUnused /\ ThrUnused /\ K8sUnused /\ CfgUnused
NextWait == call_wait_for \/ WaitFor
SpecWait == InitWait /\ [][NextWait]_vars

\* C1: whenever the predicate of a wait_for call has returned a truthy value v,
\* the call ends by returning exactly v, with or without labels.
C1_ReturnsPredicateValue ==
  (callback = "pred" /\ pc = "done" /\ Truthy(t_value)) => result = Return(t_value)

\* C2: whenever the predicate of a wait_for call has raised e, the call ends
\* by raising that same e.
C2_RaisesPredicateError ==
  (callback = "pred" /\ pc = "done" /\ IsException(t_value)) => result = Raise(t_value)

\* ========================================= gke.py: ThrottledClient, timed
\* Times are whole ticks of 0.01 s, the resolution of the wait loop.
MaxTime == 6
MaxRequests == 3
MaxThrottle == 3

\* gke.py:41-50, with throttle_secs given: _last_request_time = time.time()
InitThrottle ==
  /\ WaitIdle /\ GkeUnused /\ MgrUnused /\ K8sUnused /\ CfgUnused
  /\ now \in 0..1
  /\ throttle_secs \in 1..MaxThrottle
  /\ _last_request_time = now
  /\ request = 0 /\ submitted = 0 /\ dispatched = <<>>

\* the caller hands the next request to make_request (gke.py:60-62)
make_request_call ==
  /\ request = 0
  /\ submitted < MaxRequests
  /\ request' = submitted + 1
  /\ submitted' = submitted + 1
  /\ UNCHANGED <<now, throttle_secs, _last_request_time, dispatched, wfVars,
                 gkeVars, mgrVars, k8sVars, cfgVars>>

\* gke.py:63-64  while (time.time() - self._last_request_time) < self.throttle_secs: time.sleep(0.01)
make_request_sleep ==
  /\ request # 0
  /\ (now - _last_request_time) < throttle_secs
  /\ now < MaxTime
  /\ now' = now + 1
  /\ UNCHANGED <<throttle_secs, _last_request_time, request, submitted,
                 dispatched, wfVars, gkeVars, mgrVars, k8sVars, cfgVars>>

\* gke.py:65  return request_fn(request=request, **kwargs); nothing is assigned
\* to _last_request_time
make_request_dispatch ==
  /\ request # 0
  /\ ~((now - _last_request_time) < throttle_secs)
  /\ dispatched' = Append(dispatched, <<request, now>>)
  /\ request' = 0
  /\ _last_request_time' = _last_request_time
  /\ UNCHANGED <<now, throttle_secs, submitted, wfVars, gkeVars, mgrVars, k8sVars, cfgVars>>

\* time passes between two calls of make_request
Tick ==
  /\ request = 0
  /\ now < MaxTime
  /\ now' = now + 1
  /\ UNCHANGED <<throttle_secs, _last_request_time, request, submitted,
                 dispatched, wfVars, gkeVars, mgrVars, k8sVars, cfgVars>>

NextThrottle == make_request_call \/ make_request_sleep \/ make_request_dispatch \/ Tick
SpecThrottle == InitThrottle /\ [][NextThrottle]_vars

\* C3: requests are dispatched once each, in submission order, and two
\* consecutive dispatches are at least throttle_secs apart.
C3_ThrottleSpacing ==
  \A k \in 1..Len(dispatched) :
    /\ dispatched[k][1] = k
    /\ k > 1 => dispatched[k][2] - dispatched[k - 1][2] >= throttle_secs

\* ================================================ gke.py: ManagerResource
\* Methods the caller invokes on the manager, one after the other.
MaxOps == 1

\* the labels every wait_for call of gke.py passes (gke.py:250-254, 261-271)
Msg == "msg"
ExitMsg == "exit_msg"

\* gke.py:296-298 and 334-336
managed_resource_type ==
  IF managerKind = "GKEClusterManager" THEN "Cluster" ELSE "NodePool"

\* self.name: gke.py:338-340 for the root, gke.py:81-85 for a cluster "c" under it
self_name ==
  IF managerKind = "GKEClusterManager" THEN RootName
  ELSE name(Node("c", "Cluster", RootName, {}))

ListAnswers == {Ok(0)} \cup {Fail(f) : f \in Faults}

Put(f, k, v) == [x \in DOMAIN f \cup {k} |-> IF x = k THEN v ELSE f[x]]
Pop(f, k) == [x \in DOMAIN f \ {k} |-> f[x]]
Range(f) == {f[x] : x \in DOMAIN f}

\* the provider calls the constructor of a listed child makes: a Cluster builds
\* its K8sApiClient (cluster.get(), k8s.py:39) and lists its node pools
ChildCalls(n) ==
  IF n \in exists /\ managed_resource_type = "Cluster"
    THEN << <<"get", n>>, <<"list", n>> >>
    ELSE <<>>

\* gke.py:199-217 (and 290-294 for each listed Cluster): the children the
\* provider lists are stored under resource.name, the local name it reports
__attrs_post_init__ ==
  /\ m_pc = "new"
  /\ \E a \in ListAnswers :
       IF a.ok
         THEN /\ _resources' =
                   [k \in {<<n>> : n \in exists} |->
                      Node(k[1], managed_resource_type, self_name,
                           IF managed_resource_type = "Cluster" THEN pools[k[1]] ELSE {})]
              /\ rpc' = << <<"list", "">> >> \o ChildCalls("a") \o ChildCalls("b")
              /\ m_pc' = "idle"
              /\ ret' = Return(None)
         ELSE /\ m_pc' = "failed"
              /\ ret' = Raise(a.err)
              /\ rpc' = << <<"list", "">> >>
              /\ UNCHANGED _resources
  /\ top' = "__init__"
  /\ UNCHANGED <<exists, status, pools, busy, answer, managerKind, resource,
                 keep, ops, delete_calls, held, seen, body, wfVars, thrVars, k8sVars, cfgVars>>

\* gke.py:223-233: the children and, for a Cluster child, its own children
\* (a NodePool has no `resources`: AttributeError, continue)
resources ==
  LET keysOf(c) == IF c.type = "Cluster" THEN {<<p>> : p \in c.pools} ELSE {}
      owners(k) == {c \in Range(_resources) : k \in keysOf(c)}
      \* a later child overwrites an earlier one under the same key
      last(cs) == CHOOSE c \in cs : \A d \in cs : d._name = c._name \/ c._name = "b"
      subkeys == UNION {keysOf(c) : c \in Range(_resources)}
  IN [k \in DOMAIN _resources \cup subkeys |->
        IF k \in subkeys
          THEN Node(k[1], "NodePool", name(last(owners(k))), {})
          ELSE _resources[k]]

\* A create that lets every error of the create request through.
create_raises_on_conflict(a) == ~a.ok

\* A create that swallows the busy code 400 as well as 409.
create_absorbs_busy(a) ==
  ~a.ok /\ (a.err.kind # "http" \/ a.err.code \notin {400, 409})

\* gke.py:105-112: the create request's error is swallowed only with code 409
create_raises(a) == ~a.ok /\ (~HasCode(a.err) \/ a.err.code # 409)

\* gke.py:87-113  Resource.create(resource, parent).  cls(resource.name, parent)
\* at line 97 runs Cluster.__attrs_post_init__ (gke.py:290-294) for a Cluster:
\* K8sApiClient(self) calls cluster.get() (k8s.py:37-45; a gateway error is no
\* requests.HTTPError and passes through), then the node pools are listed.
\* Only then is the create request made.
\* One outcome: [raised, err, obj, world, calls].
create(spec, parent_name) ==
  LET n == spec.name
      send(ps, before) ==
        { [raised |-> create_raises(a), err |-> a.err, ans |-> a,
           obj |-> Node(n, spec.type, parent_name, ps),
           world |-> AfterCreate(n, a),
           calls |-> before \o << <<"create", n>> >>] : a \in CreateAnswers(n) }
      failed(e, calls) ==
        [raised |-> TRUE, err |-> e, ans |-> Fail(e), obj |-> NoNode,
         world |-> Unchanged, calls |-> calls]
  IN IF spec.type = "Cluster"
       THEN UNION {
              IF ~g.ok
                THEN {failed(g.err, << <<"get", n>> >>)}
                ELSE UNION {
                       IF ~l.ok
                         THEN {failed(l.err, << <<"get", n>>, <<"list", n>> >>)}
                         ELSE send(pools[n], << <<"get", n>>, <<"list", n>> >>)
                       : l \in ListAnswers }
              : g \in GetAnswers(n) }
       ELSE send({}, <<>>)

Specs == [type : {"Cluster", "NodePool"}, name : Names]

\* gke.py:239-254: the type check, Resource.create, and the wait for is_ready begun
EnterCreate(spec) ==
  IF spec.type # managed_resource_type
    THEN /\ ret' = Raise(Exc("TypeError"))
         /\ m_pc' = "idle"
         /\ rpc' = <<>>
         /\ NoWait
         /\ UNCHANGED <<exists, status, busy, answer, resource>>
    ELSE \E c \in create(spec, self_name) :
           /\ exists' = c.world.exists
           /\ status' = c.world.status
           /\ busy' = c.world.busy
           /\ answer' = c.ans
           /\ rpc' = c.calls
           /\ IF c.raised
                THEN /\ ret' = Raise(c.err)
                     /\ m_pc' = "idle"
                     /\ NoWait
                     /\ UNCHANGED resource
                ELSE /\ resource' = c.obj
                     /\ StartWait("is_ready", Msg, ExitMsg)
                     /\ m_pc' = "create_resource"
                     /\ ret' = NoResult

\* gke.py:239  create_resource(resource), called by the user
create_resource ==
  /\ m_pc = "idle"
  /\ ops < MaxOps
  /\ \E spec \in Specs : EnterCreate(spec)
  /\ top' = "create_resource" /\ keep' = FALSE /\ body' = "none"
  /\ ops' = ops + 1 /\ delete_calls' = 0 /\ held' = _resources /\ seen' = {}
  /\ UNCHANGED <<managerKind, _resources, pools, thrVars, k8sVars, cfgVars>>

\* the caller's round trip: node = create_resource(resource), then
\* delete_resource(node) (gke.py:239 and 258)
create_then_delete ==
  /\ m_pc = "idle"
  /\ ops < MaxOps
  /\ \E spec \in Specs : EnterCreate(spec)
  /\ top' = "create_then_delete" /\ keep' = FALSE /\ body' = "none"
  /\ ops' = ops + 1 /\ delete_calls' = 0 /\ held' = _resources /\ seen' = {}
  /\ UNCHANGED <<managerKind, _resources, pools, thrVars, k8sVars, cfgVars>>

\* gke.py:274-276  manage_resource(resource, keep): create_resource comes first,
\* outside the try
manage_resource ==
  /\ m_pc = "idle"
  /\ ops < MaxOps
  /\ \E spec \in Specs : EnterCreate(spec)
  /\ \E k \in BOOLEAN : keep' = k
  /\ top' = "manage_resource" /\ body' = "none"
  /\ ops' = ops + 1 /\ delete_calls' = 0 /\ held' = _resources /\ seen' = {}
  /\ UNCHANGED <<managerKind, _resources, pools, thrVars, k8sVars, cfgVars>>

\* gke.py:258-265  delete_resource(resource), called by the user on a node of
\* the child mapping: the wait for submit_delete begun
delete_resource ==
  /\ m_pc = "idle"
  /\ ops < MaxOps
  /\ \E node \in Range(_resources) : resource' = node
  /\ StartWait("submit_delete", Msg, ExitMsg)
  /\ m_pc' = "delete_resource:submit_delete"
  /\ top' = "delete_resource" /\ keep' = FALSE /\ body' = "none"
  /\ ret' = NoResult
  /\ ops' = ops + 1 /\ delete_calls' = 1 /\ held' = _resources /\ seen' = {}
  /\ rpc' = <<>> /\ busy' = 0
  /\ UNCHANGED <<managerKind, _resources, exists, status, pools, answer,
                 thrVars, k8sVars, cfgVars>>

\* A create_resource that tracks the resource whether or not it became ready.
AfterReady_tracks_always ==
  /\ _resources' = Put(_resources, name(resource), resource)
  /\ ret' = IF result.kind = "return" THEN Return(Val("node"))
            ELSE Raise(result.item)
  /\ m_pc' = "idle"
  /\ LeaveWait
  /\ UNCHANGED <<body, delete_calls>>

\* gke.py:255-256 after the wait for is_ready; under manage_resource then
\* gke.py:277-287: the block runs, and delete_resource is begun unless keep
AfterReady ==
  IF result.kind = "return"
    THEN /\ _resources' = Put(_resources, name(resource), resource)
         /\ IF top = "create_resource"
              THEN /\ ret' = Return(Val("node"))
                   /\ m_pc' = "idle"
                   /\ LeaveWait
                   /\ UNCHANGED <<body, delete_calls>>
              ELSE \E b \in IF top = "manage_resource" THEN {"returns", "raises"}
                            ELSE {"none"} :
                     /\ body' = b
                     /\ IF top = "manage_resource" /\ keep
                          THEN /\ ret' = IF b = "raises" THEN Raise(Exc("BlockError"))
                                         ELSE Return(None)
                               /\ m_pc' = "idle"
                               /\ LeaveWait
                               /\ UNCHANGED delete_calls
                          ELSE /\ delete_calls' = delete_calls + 1
                               /\ StartWait("submit_delete", Msg, ExitMsg)
                               /\ m_pc' = "delete_resource:submit_delete"
                               /\ ret' = NoResult
    ELSE /\ ret' = Raise(result.item)
         /\ m_pc' = "idle"
         /\ LeaveWait
         /\ UNCHANGED <<_resources, body, delete_calls>>

\* gke.py:267-271 after the wait for submit_delete: the wait for is_deleted begun
AfterSubmitDelete ==
  /\ IF result.kind = "return"
       THEN /\ StartWait("is_deleted", Msg, ExitMsg)
            /\ m_pc' = "delete_resource:is_deleted"
            /\ ret' = NoResult
       ELSE /\ ret' = Raise(result.item)
            /\ m_pc' = "idle"
            /\ LeaveWait
  /\ UNCHANGED <<_resources, body, delete_calls>>

\* gke.py:272 after the wait for is_deleted: self._resources.pop(resource.name)
AfterIsDeleted ==
  /\ IF result.kind = "return"
       THEN IF name(resource) \in DOMAIN _resources
              THEN /\ _resources' = Pop(_resources, name(resource))
                   /\ ret' = IF top = "manage_resource" /\ body = "raises"
                               THEN Raise(Exc("BlockError")) ELSE Return(None)
              ELSE /\ ret' = Raise(Exc("KeyError"))
                   /\ UNCHANGED _resources
       ELSE /\ ret' = Raise(result.item)
            /\ UNCHANGED _resources
  /\ m_pc' = "idle"
  /\ LeaveWait
  /\ UNCHANGED <<body, delete_calls>>

\* wait_for has returned or raised into the method that called it
resume ==
  /\ pc = "done"
  /\ m_pc \in {"create_resource", "delete_resource:submit_delete",
               "delete_resource:is_deleted"}
  /\ CASE m_pc = "create_resource" -> AfterReady
       [] m_pc = "delete_resource:submit_delete" -> AfterSubmitDelete
       [] OTHER -> AfterIsDeleted
  /\ UNCHANGED <<managerKind, resource, keep, top, ops, held, seen, gkeVars,
                 thrVars, k8sVars, cfgVars>>

\* A manager about to be constructed over a provider that already lists some
\* resources of the managed kind.
InitManager ==
  /\ WaitIdle /\ ThrUnused /\ K8sUnused /\ CfgUnused
  /\ managerKind \in {"GKEClusterManager", "Cluster"}
  /\ exists \in SUBSET Names
  /\ status \in [Names -> {0, 1, 2, 4}]
  /\ \A n \in Names : n \in exists <=> status[n] # 0
  /\ pools \in [Names -> SUBSET PoolNames]
  /\ \A n \in Names : (managerKind = "Cluster" \/ n \notin exists) => pools[n] = {}
  /\ busy = 0 /\ answer = Ok(0) /\ rpc = <<>>
  /\ _resources = <<>> /\ m_pc = "new" /\ resource = NoNode /\ keep = FALSE
  /\ top = "none" /\ ret = NoResult /\ ops = 0 /\ delete_calls = 0
  /\ held = <<>> /\ seen = {} /\ body = "none"

NextManager ==
  \/ __attrs_post_init__ \/ create_resource \/ manage_resource \/ delete_resource
  \/ create_then_delete \/ resume \/ WaitFor \/ ProviderStep

SpecManager == InitManager /\ [][NextManager]_vars

\* a delete request for the resource of the running method is in its call log
DeleteSubmitted ==
  \E k \in 1..Len(rpc) : rpc[k] = <<"delete", resource._name>>

\* the provider accepted the create request of the running method: the request
\* was made for a resource the manager did not list before
CreateAccepted ==
  /\ \E k \in 1..Len(rpc) : rpc[k] = <<"create", resource._name>>
  /\ \A k \in DOMAIN held : held[k]._name # resource._name

\* C4: when create_resource or manage_resource has ended because is_ready
\* raised while a resource whose create request was accepted was awaited, a
\* delete request has been submitted for that resource.
C4_FailedWaitSubmitsDelete ==
  ( /\ m_pc = "idle"
    /\ top \in {"create_resource", "manage_resource"}
    /\ CreateAccepted
    /\ callback = "is_ready"
    /\ IsException(t_value)
    /\ ret.kind = "raise" )
  => DeleteSubmitted

\* C5: when manage_resource has ended for a resource that was created and
\* found ready, delete_resource has been called exactly once if keep is false,
\* and not at all if keep is true, the resource then being in the child
\* mapping and at the provider.
C5_ManageDeletesOnceUnlessKept ==
  ( /\ m_pc = "idle"
    /\ top = "manage_resource"
    /\ "is_ready" \in seen )
  => IF keep
       THEN /\ delete_calls = 0
            /\ name(resource) \in DOMAIN _resources
            /\ resource._name \in exists
       ELSE delete_calls = 1

\* C6: every key of the child mapping is the identity path (node.name) of the
\* node stored under it, children listed at construction included.
C6_KeysAreIdentityPaths ==
  \A k \in DOMAIN _resources : k = name(_resources[k])

\* C7: create_resource on a manager whose provider had no children, with a
\* provider that answers without faults and ends by reporting READY, returns
\* the node, the create request being the first provider call, and `resources`
\* then holds exactly one entry, keyed by the node's identity path.
C7_CreateOnEmptyProvider ==
  ( /\ m_pc = "idle"
    /\ top = "create_resource"
    /\ held = <<>>
    /\ rpc # <<>>
    /\ answer \in {Ok(READY), Fail(Http(404))} )
  => /\ ret = Return(Val("node"))
     /\ rpc[1][1] = "create"
     /\ DOMAIN resources = {name(resource)}

\* C8: when create_resource followed by delete_resource on the returned node
\* has ended, for a resource that was created and found ready, the child
\* mapping is without the node's identity and the provider no longer lists
\* the resource.
C8_CreateDeleteRoundTrip ==
  ( /\ m_pc = "idle"
    /\ top = "create_then_delete"
    /\ "is_ready" \in seen )
  => /\ name(resource) \notin DOMAIN _resources
     /\ resource._name \notin exists

\* C9: delete_resource runs its two phases in order: is_deleted is polled only
\* once submit_delete has returned true, a node leaves the child mapping only
\* once is_deleted has returned true, a delete_resource that raised has left
\* the mapping as it was, and a delete_resource whose submit_delete returned
\* true and none of whose predicates raised ends with is_deleted having
\* returned true and the node out of the mapping.
C9_TwoPhasesInOrder ==
  /\ callback = "is_deleted" => "submit_delete" \in seen
  /\ \A k \in DOMAIN held : k \notin DOMAIN _resources => "is_deleted" \in seen
  /\ (m_pc = "idle" /\ top = "delete_resource" /\ ret.kind = "raise")
       => _resources = held
  /\ ( /\ m_pc = "idle"
       /\ top = "delete_resource"
       /\ "submit_delete" \in seen
       /\ ~IsException(t_value) )
     => /\ "is_deleted" \in seen
        /\ \A k \in DOMAIN _resources : _resources[k] # resource

C13_TerminalStatusEndsCreate ==
  ( /\ top \in {"create_resource", "manage_resource", "create_then_delete"}
    /\ callback = "is_ready"
    /\ t_value = Exc("RuntimeError") )
  => /\ t_pc \in {"put", "exit", "dead"}
     /\ answer.ok /\ answer.status > READY
     /\ _resources = held
     /\ m_pc = "idle" => ret.kind = "raise"

\* create_resource has ended with an error after a poll that saw a terminal
\* failure status, a poll before it having seen the resource not ready yet
C13_FailedAfterPolls ==
  /\ m_pc = "idle" /\ top = "create_resource"
  /\ callback = "is_ready" /\ t_value = Exc("RuntimeError")
  /\ polls > 1 /\ ret.kind = "raise"

\* ===================================== gke.py: the methods of one node
\* The methods of a Resource node called directly, one call after the other,
\* on a node of either kind whose resource the provider may or may not list.
MaxCalls == 2

InitNode ==
  /\ WaitIdle /\ ThrUnused /\ K8sUnused /\ CfgUnused
  /\ managerKind \in {"GKEClusterManager", "Cluster"}
  /\ exists \in SUBSET Names
  /\ status \in [Names -> Statuses]
  /\ \A n \in Names : n \notin exists => status[n] = 0
  /\ pools = [n \in Names |-> {}]
  /\ busy = 0 /\ answer = Ok(0) /\ rpc = <<>>
  /\ _resources = <<>> /\ m_pc = "idle" /\ resource = NoNode /\ keep = FALSE
  /\ top = "none" /\ ret = NoResult /\ ops = 0 /\ delete_calls = 0
  /\ held = <<>> /\ seen = {} /\ body = "none"

\* what a method that returns or raises x leaves with its caller
Outcome(x) == IF IsException(x) THEN Raise(x) ELSE Return(x)

\* node.is_ready(), node.submit_delete() or node.is_deleted() on the node
\* named n of the kind the parent manages
MethodCall(method, n) ==
  /\ m_pc = "idle"
  /\ ops < MaxCalls
  /\ resource' = Node(n, managed_resource_type, self_name, {})
  /\ \E r \in Invoke(method, n) :
       /\ ret' = Outcome(r.ret)
       /\ answer' = r.ans
       /\ exists' = r.world.exists
       /\ status' = r.world.status
       /\ busy' = r.world.busy
       /\ rpc' = r.calls
  /\ top' = method
  /\ ops' = ops + 1
  /\ UNCHANGED <<pools, managerKind, _resources, m_pc, keep, delete_calls, held,
                 seen, body, wfVars, thrVars, k8sVars, cfgVars>>

call_is_ready == \E n \in Names : MethodCall("is_ready", n)
call_submit_delete == \E n \in Names : MethodCall("submit_delete", n)
call_is_deleted == \E n \in Names : MethodCall("is_deleted", n)

\* Resource.create(resource, parent) called directly
call_create ==
  /\ m_pc = "idle"
  /\ ops < MaxCalls
  /\ \E n \in Names :
       \E c \in create([type |-> managed_resource_type, name |-> n], self_name) :
         /\ ret' = IF c.raised THEN Raise(c.err) ELSE Return(Val("node"))
         /\ resource' = IF c.raised THEN NoNode ELSE c.obj
         /\ answer' = c.ans
         /\ exists' = c.world.exists
         /\ status' = c.world.status
         /\ busy' = c.world.busy
         /\ rpc' = c.calls
  /\ top' = "create"
  /\ ops' = ops + 1
  /\ UNCHANGED <<pools, managerKind, _resources, m_pc, keep, delete_calls, held,
                 seen, body, wfVars, thrVars, k8sVars, cfgVars>>

NextNode ==
  \/ call_create \/ call_is_ready \/ call_submit_delete \/ call_is_deleted
  \/ ProviderStep

SpecNode == InitNode /\ [][NextNode]_vars

\* C10: a call of submit_delete makes exactly one delete request; it returns
\* true when the request is accepted or fails with code 404, false when it
\* fails with code 400, and raises every other error, coded or not.
C10_SubmitDeleteTriState ==
  top = "submit_delete" =>
    /\ rpc = << <<"delete", resource._name>> >>
    /\ answer.ok => ret = Return(True)
    /\ (~answer.ok /\ answer.err = Http(404)) => ret = Return(True)
    /\ (~answer.ok /\ answer.err = Http(400)) => ret = Return(False)
    /\ (~answer.ok /\ answer.err \notin {Http(404), Http(400)})
         => ret = Raise(answer.err)

\* C12: is_ready makes one get request; it returns true exactly when the
\* status is READY (2), false for every status below it, raises RuntimeError
\* for every status above it, and raises the error of a failed get.
C12_IsReadyByStatus ==
  top = "is_ready" =>
    /\ rpc = << <<"get", resource._name>> >>
    /\ ret = Return(True) <=> (answer.ok /\ answer.status = 2)
    /\ (answer.ok /\ answer.status < 2) => ret = Return(False)
    /\ (answer.ok /\ answer.status > 2) => ret = Raise(Exc("RuntimeError"))
    /\ ~answer.ok => ret = Raise(answer.err)

\* is_ready has raised on a status above READY
C12_TerminalStatusRaised ==
  /\ top = "is_ready" /\ answer.ok /\ answer.status > 2
  /\ ret = Raise(Exc("RuntimeError"))

\* C14: Resource.create returns a node of the requested kind and name, and
\* does not raise, when the provider answers the create request with 409.
C14_ConflictOnCreateReturnsNode ==
  (top = "create" /\ answer = Fail(Http(409))) =>
    /\ rpc[Len(rpc)][1] = "create"
    /\ ret = Return(Val("node"))
    /\ resource # NoNode
    /\ resource._name = rpc[Len(rpc)][2]
    /\ resource.type = managed_resource_type

\* Resource.create has returned a Cluster node although the create request
\* was answered with 409
C14_ClusterAlreadyExists ==
  /\ top = "create" /\ answer = Fail(Http(409))
  /\ resource.type = "Cluster" /\ ret = Return(Val("node"))

\* C15: is_deleted returns true when the get fails with 404, raises
\* RuntimeError when the status is above DELETING (4), returns false for
\* every other status, and raises every other error of the get, coded or not.
C15_IsDeletedByStatus ==
  top = "is_deleted" =>
    /\ rpc = << <<"get", resource._name>> >>
    /\ (~answer.ok /\ answer.err = Http(404)) => ret = Return(True)
    /\ (~answer.ok /\ answer.err # Http(404)) => ret = Raise(answer.err)
    /\ (answer.ok /\ answer.status > 4) => ret = Raise(Exc("RuntimeError"))
    /\ (answer.ok /\ answer.status <= 4) => ret = Return(False)

\* is_deleted has raised an error of the get that carries no code
C15_UncodedErrorRaised ==
  /\ top = "is_deleted" /\ answer = Fail(Exc("ConnectionError"))
  /\ ret = Raise(Exc("ConnectionError"))

\* C16 (as stated): in Resource.create and in submit_delete an error of the
\* request with code 400 or 409 is absorbed: the method does not raise.
C16_BusyAndConflictAbsorbed ==
  ( /\ top \in {"create", "submit_delete"}
    /\ rpc[Len(rpc)][1] \in {"create", "delete"}
    /\ ~answer.ok /\ answer.err \in {Http(400), Http(409)} )
  => ret.kind = "return"

\* C16 (amended): Resource.create absorbs an error of the create request
\* exactly when its code is 409, and submit_delete absorbs an error of the
\* delete request exactly when its code is 400 or 404; every other error,
\* 400 on create and 409 on delete included, is raised.
C16_AbsorbedCodesPerFlow ==
  /\ (top = "create" /\ rpc[Len(rpc)][1] = "create" /\ ~answer.ok) =>
       /\ ret.kind = "return" <=> answer.err = Http(409)
       /\ ret.kind = "raise" => ret.item = answer.err
  /\ (top = "submit_delete" /\ ~answer.ok) =>
       /\ ret.kind = "return" <=> answer.err \in {Http(400), Http(404)}
       /\ ret.kind = "raise" => ret.item = answer.err

\* submit_delete has raised the 409 that answered its delete request
C16_ConflictOnDeleteRaised ==
  /\ top = "submit_delete" /\ answer = Fail(Http(409))
  /\ ret = Raise(Http(409))

\* submit_delete has returned true for a delete request that failed with 404
C10_Witness404 ==
  top = "submit_delete" /\ answer = Fail(Http(404)) /\ ret = Return(True)

\* ===================================== k8s.py: K8sApiClient's methods
\* One client, constructed over a cluster that the provider may or may not
\* list, by a caller who did or did not supply credentials; then the client's
\* methods, one call after the other.
MaxK8sOps == 1

InitK8s ==
  /\ WaitIdle /\ GkeUnused /\ MgrUnused /\ ThrUnused /\ CfgUnused
  /\ credentials \in {"None", "supplied"}
  /\ _refresh = FALSE /\ stale \in BOOLEAN
  /\ k_pc = "new" /\ k_op = "none" /\ k_ret = NoResult /\ k_calls = <<>>
  /\ k_answer = Served(NoPayload) /\ refreshes = 0 /\ k_ops = 0

\* k8s.py:37-71  K8sApiClient(cluster): cluster.get() must answer (a gateway
\* error is no requests.HTTPError and passes through); the token is fetched
\* from the metadata server when no credentials were supplied.
__init__ ==
  /\ k_pc = "new"
  /\ \E g \in {Ok(READY), Fail(Http(404))} :
       IF g.ok
         THEN /\ _refresh' = (credentials = "None")
              /\ k_pc' = "idle"
              /\ k_ret' = Return(None)
         ELSE /\ k_pc' = "failed"
              /\ k_ret' = Raise(g.err)
              /\ UNCHANGED _refresh
  /\ k_op' = "__init__"
  /\ UNCHANGED <<credentials, stale, k_calls, k_answer, refreshes, k_ops, wfVars,
                 gkeVars, mgrVars, thrVars, cfgVars>>

\* The token the client holds expires: the control plane sees it between two
\* workload calls.
TokenExpires ==
  /\ k_pc = "idle" \/ (k_pc \notin {"new", "failed"} /\ t_pc = "callback")
  /\ ~stale
  /\ stale' = TRUE
  /\ UNCHANGED <<credentials, _refresh, k_pc, k_op, k_ret, k_calls, k_answer,
                 refreshes, k_ops, wfVars, gkeVars, mgrVars, thrVars, cfgVars>>

\* the caller invokes the method op of the client
BeginK8s(op) ==
  /\ k_pc = "idle"
  /\ k_ops < MaxK8sOps
  /\ k_op' = op
  /\ k_ops' = k_ops + 1
  /\ seen' = {}
  /\ UNCHANGED <<credentials, _refresh, stale, managerKind, _resources, m_pc,
                 resource, keep, top, ret, ops, delete_calls, held, body,
                 gkeVars, thrVars, cfgVars>>

\* k8s.py:73-78
create_from_yaml ==
  /\ BeginK8s("create_from_yaml")
  /\ \E r \in create_from_yaml_outcomes :
       /\ k_ret' = Outcome(r.ret)
       /\ k_calls' = r.kcalls
       /\ k_answer' = r.kans
       /\ refreshes' = r.fetched
  /\ k_pc' = "idle"
  /\ NoWait

\* k8s.py:94-116  remove_deployment(name): the delete command, then the wait
\* for _deleted_callback begun
remove_deployment ==
  /\ BeginK8s("remove_deployment")
  /\ \E r \in _try_cmd("delete_namespaced_deployment") :
       /\ k_calls' = r.kcalls
       /\ k_answer' = r.kans
       /\ refreshes' = r.fetched
       /\ IF IsException(r.ret)
            THEN /\ k_ret' = Raise(r.ret)
                 /\ k_pc' = "idle"
                 /\ NoWait
            ELSE /\ k_ret' = NoResult
                 /\ k_pc' = "remove_deployment:wait"
                 /\ StartWait("_deleted_callback", Msg, ExitMsg)

\* k8s.py:118-155  wait_for_deployment(name): the wait for _ready_callback begun
wait_for_deployment ==
  /\ BeginK8s("wait_for_deployment")
  /\ k_ret' = NoResult /\ k_calls' = <<>> /\ refreshes' = 0
  /\ k_pc' = "wait_for_deployment:wait"
  /\ StartWait("wait_for_deployment._ready_callback", Msg, ExitMsg)
  /\ UNCHANGED k_answer

\* k8s.py:157-178  wait_for_service(name): the wait for _ready_callback begun
wait_for_service ==
  /\ BeginK8s("wait_for_service")
  /\ k_ret' = NoResult /\ k_calls' = <<>> /\ refreshes' = 0
  /\ k_pc' = "wait_for_service:wait"
  /\ StartWait("wait_for_service._ready_callback", Msg, ExitMsg)
  /\ UNCHANGED k_answer

\* k8s.py:180-192  wait_for_daemon_set(name): _ready_callback is defined and
\* the method ends; nothing is called
wait_for_daemon_set ==
  /\ BeginK8s("wait_for_daemon_set")
  /\ k_ret' = Return(None) /\ k_calls' = <<>> /\ refreshes' = 0
  /\ k_pc' = "idle"
  /\ NoWait
  /\ UNCHANGED k_answer

\* wait_for has returned or raised into the method that called it:
\* wait_for_service returns its value (k8s.py:174), the others return None
resume_k8s ==
  /\ pc = "done"
  /\ k_pc \in {"remove_deployment:wait", "wait_for_deployment:wait",
               "wait_for_service:wait"}
  /\ k_ret' = IF result.kind = "return" /\ k_op # "wait_for_service"
                THEN Return(None) ELSE result
  /\ k_pc' = "idle"
  /\ LeaveWait
  /\ UNCHANGED <<credentials, _refresh, stale, k_op, k_calls, k_answer, refreshes,
                 k_ops, gkeVars, mgrVars, thrVars, cfgVars>>

NextK8s ==
  \/ __init__ \/ TokenExpires
  \/ create_from_yaml \/ remove_deployment \/ wait_for_deployment
  \/ wait_for_service \/ wait_for_daemon_set
  \/ resume_k8s \/ WaitFor

SpecK8s == InitK8s /\ [][NextK8s]_vars

\* the running (or last) method is one that wraps its calls in _maybe_refresh
Enveloped == k_op \in {"create_from_yaml", "remove_deployment"}

\* C17: when a method of a client with a refreshable credential has ended and
\* its first workload call had failed with 401 (the token was stale and a new
\* one would have been accepted), it has fetched exactly one token, made
\* exactly two call attempts, and returned.
C17_RefreshAndRetryOnce ==
  ( /\ k_pc = "idle"
    /\ k_op \in {"create_from_yaml", "remove_deployment", "wait_for_deployment",
                 "wait_for_service", "wait_for_daemon_set"}
    /\ _refresh
    /\ Len(k_calls) > 0
    /\ k_calls[1].err = HTTPError(401) )
  => /\ refreshes = 1
     /\ Len(k_calls) = 2
     /\ k_ret.kind = "return"

\* C18: when a method of a client with a non-refreshable credential has ended
\* and a workload call it wrapped had failed with 401, that call was its last
\* one, no token was fetched, and the method raised the Unauthorized error.
C18_UnauthorizedWithoutRetry ==
  \A j \in 1..Len(k_calls) :
    ( /\ k_pc = "idle"
      /\ Enveloped
      /\ ~_refresh
      /\ k_calls[j].err = HTTPError(401) )
    => /\ j = Len(k_calls)
       /\ refreshes = 0
       /\ k_ret = Raise(Unauthorized)

\* C19: in create_from_yaml and remove_deployment, a workload call that failed
\* with a code other than 401 (and, in remove_deployment, other than 404) is
\* the method's last call, and the method, once ended, has raised.
C19_OtherErrorsPropagate ==
  \A j \in 1..Len(k_calls) :
    ( /\ Enveloped
      /\ IsException(k_calls[j].err)
      /\ k_calls[j].err.code # 401
      /\ ~(k_op = "remove_deployment" /\ k_calls[j].err.code = 404) )
    => /\ j = Len(k_calls)
       /\ k_pc = "idle" => k_ret.kind = "raise"

\* ============================ gke.py: create_gpu_node_pool_config
MaxVcpus == 128
MaxGpus == 9
GpuTypes == {"t4", "v100", "p100", "p4", "k80"}
GpuTypeInputs == GpuTypes \cup {"a100"}

\* math.log2(n) % 1 == 0, for n >= 1: n is a power of two
RECURSIVE log2_is_whole(_)
log2_is_whole(n) ==
  IF n = 1 THEN TRUE
  ELSE IF n % 2 = 1 THEN FALSE
  ELSE log2_is_whole(n \div 2)

\* gke.py:343-373; math.log2 raises ValueError for vcpus <= 0
create_gpu_node_pool_config(v, g, t) ==
  IF v <= 0 THEN Exc("ValueError")
  ELSE IF ~log2_is_whole(v) \/ v # 96 THEN Exc("ValueError")
  ELSE IF g < 1 \/ g > 8 THEN Exc("ValueError")
  ELSE IF t \notin GpuTypes THEN Exc("ValueError")
  ELSE Val("NodeConfig")

InitConfig ==
  WaitIdle /\ GkeUnused /\ MgrUnused /\ ThrUnused /\ K8sUnused /\ CfgUnused

call_create_gpu_node_pool_config ==
  /\ config = NoResult
  /\ \E v \in 0..MaxVcpus, g \in 0..MaxGpus, t \in GpuTypeInputs :
       /\ vcpus' = v /\ gpus' = g /\ gpu_type' = t
       /\ config' = Outcome(create_gpu_node_pool_config(v, g, t))
  /\ UNCHANGED <<wfVars, gkeVars, mgrVars, thrVars, k8sVars>>

NextConfig == call_create_gpu_node_pool_config

SpecConfig == InitConfig /\ [][NextConfig]_vars

\* C20: create_gpu_node_pool_config raises exactly when the vcpu count is not
\* 96, the gpu count is outside 1..8 or the gpu type is unknown; otherwise it
\* returns a node configuration.
C20_RaisesExactlyOnBadSizing ==
  config # NoResult =>
    ( config.kind = "raise"
        <=> (vcpus # 96 \/ gpus \notin 1..8 \/ gpu_type \notin GpuTypes) )

\* C21: when delete_resource has ended for a child that the manager found by
\* listing at construction, the provider having accepted the delete request
\* and no predicate having raised, it has returned without error and the
\* child mapping holds no entry for that node.
C21_ListedChildIsDeleted ==
  ( /\ m_pc = "idle"
    /\ top = "delete_resource"
    /\ \E k \in DOMAIN held : held[k] = resource /\ k = <<resource._name>>
    /\ "submit_delete" \in seen
    /\ ~IsException(t_value) )
  => /\ ret.kind = "return"
     /\ \A k \in DOMAIN _resources : _resources[k] # resource

\* C22: when wait_for_daemon_set has returned to its caller, the client has
\* read the daemon set status, and the last such read showed the
\* desired-scheduled count equal to the ready count.
C22_DaemonSetReadBeforeReturn ==
  ( /\ k_op = "wait_for_daemon_set"
    /\ k_pc = "idle"
    /\ k_ret.kind = "return" )
  => /\ Len(k_calls) > 0
     /\ k_calls[Len(k_calls)].cmd = "read_namespaced_daemon_set_status"
     /\ k_answer.ok
     /\ k_answer.payload.desired = k_answer.payload.ready

\* C23: within one wait_for call the worker puts one item on the channel, and
\* only once it has left its loop: the put count is 1 exactly when the worker
\* is past q.put and 0 before; the worker is never about to invoke the
\* predicate after the predicate returned a truthy value or raised; the waiter
\* has taken at most one item, never more than were put; and once wait_for has
\* returned or raised, the worker has put its item and is past its loop, so
\* the predicate is not invoked again.
C23_OnePutOneTakeNoLatePoll ==
  (callback = "pred" /\ pc # "idle")
  => /\ puts <= 1
     /\ (t_pc \in {"exit", "dead"}) <=> (puts = 1)
     /\ t_pc = "callback" => ~Truthy(t_value) /\ ~IsException(t_value)
     /\ t_pc = "put" => Truthy(t_value) \/ IsException(t_value)
     /\ takes <= puts
     /\ Len(q) = puts - takes
     /\ pc = "done" => t_pc \in {"exit", "dead"} /\ puts = 1

\* a call that ended after several polls, its one item put and taken
C23_PutAndTakenAfterPolls ==
  /\ callback = "pred" /\ pc = "done"
  /\ polls > 1
  /\ puts = 1 /\ takes = 1

\* C24: while wait_for_deployment waits, once a poll has read a deployment
\* whose Progressing condition is false and whose Available condition is not
\* true, the callback has raised and the worker has left its polling loop.
C24_StoppedProgressingEndsWait ==
  ( /\ k_pc = "wait_for_deployment:wait"
    /\ callback = "wait_for_deployment._ready_callback"
    /\ polls > 0
    /\ k_answer.ok
    /\ k_answer.payload.conditions = "list"
    /\ k_answer.payload.Progressing = "False"
    /\ k_answer.payload.Available # "True" )
  => /\ IsException(t_value)
     /\ t_pc # "callback"

====
